---- MODULE Spec2Model ----
(***************************************************************************)
(* Model of sync_github_backlog.py: runs of main() against an issue        *)
(* tracker reached through run_gh_command.  The backlog file, the gh       *)
(* executable and the tracker are the environment.                         *)
(*                                                                         *)
(* A gh invocation has one of these outcomes:                              *)
(*   "valid"        exit 0, stdout as documented (takes effect)            *)
(*   "empty"        exit 0, empty stdout (list command only)               *)
(*   "garbage"      exit 0, stdout that is not JSON (list command only)    *)
(*   "exit1"        nonzero exit: CalledProcessError, caught at line 15    *)
(*   "nostart"      gh cannot be started: OSError, not caught              *)
(*   "undecodable"  exit 0, stdout not UTF-8: UnicodeDecodeError, not      *)
(*                  caught (the command has taken effect)                  *)
(* JSON objects are records whose domain is the set of keys present; body  *)
(* and label values are tagged with their JSON type.                       *)
(***************************************************************************)
EXTENDS Integers, Sequences, FiniteSets, TLC

\* ---- bounds ----
MaxEpics == 2
MaxIssues == 1
MaxRemote == 2
MaxRuns == 2

\* titles of the inputs; malformed IssueSpecs are drawn for the second set
Titles == {"A", "B", "D"}
MalformedTitles == {"B"}
SmallTitles == {"A", "D"}
SmallMalformedTitles == {"A"}

\* default value of close_issue_with_label's reason parameter
Reason == "post-v0.1"

VARIABLES
    backlogFile,            \* intentive_complete_backlog.json: [state, doc]
    remote,                 \* tracker state: issue number -> issue
    remote0,                \* tracker state when the current run started
    pc,                     \* position of main()
    exc,                    \* the exception that left main(), if any
    run,                    \* ordinal of the current run
    backlog,                \* main: backlog
    v01_titles,             \* main: v01_titles
    current_issues,         \* main: current_issues
    issues_to_close,        \* main: issues_to_close
    existing_v01_issues,    \* main: existing_v01_issues
    missing_issues,         \* main: missing_issues
    ci,                     \* index of the close loop (line 96)
    ki,                     \* index of the create loops (lines 105-106), flattened
    calls,                  \* gh processes run in the current run, with outcome
    summary,                \* the three counts printed at lines 112-114
    prevDone,               \* the previous run printed its summary
    prevQueryOk,            \* QueryOk of the previous run
    prevMutOk               \* MutOk of the previous run

vars == <<backlogFile, remote, remote0, pc, exc, run, backlog, v01_titles,
          current_issues, issues_to_close, existing_v01_issues,
          missing_issues, ci, ki, calls, summary, prevDone, prevQueryOk,
          prevMutOk>>

\* ---- JSON values ----
JString(s) == [type |-> "string", value |-> s]

JNull == [type |-> "null", value |-> ""]

JNumber == [type |-> "number", value |-> "1"]

\* ---- input domains ----
SeqsUpTo(S, n) == UNION {[1..m -> S] : m \in 0..n}

WellFormedSpecs(T) ==
    {[title |-> t, body |-> JString("b"), labels |-> <<JString("v0.1")>>]
        : t \in T}

\* objects that json.load accepts and main() trips over
MalformedSpecs(M) ==
    UNION {{[title |-> t, labels |-> <<JString("v0.1")>>],
            [title |-> t, body |-> JString("b")],
            [title |-> t, body |-> JNull, labels |-> <<JString("v0.1")>>],
            [title |-> t, body |-> JString("b"), labels |-> <<JNumber>>],
            [body |-> JString("b"), labels |-> <<JString("v0.1")>>]}
           : t \in M}

IssueSpecs(T, M) == WellFormedSpecs(T) \cup MalformedSpecs(M)

Epics(T, M) ==
    {[issues |-> s] : s \in SeqsUpTo(IssueSpecs(T, M), MaxIssues)}
      \cup {[description |-> "no issues key"]}

Backlogs(T, M) ==
    {[epics |-> s] : s \in SeqsUpTo(Epics(T, M), MaxEpics)}
      \cup {[version |-> "no epics key"]}

BacklogFiles(T, M) ==
    {[state |-> "json", doc |-> b] : b \in Backlogs(T, M)}
      \cup {[state |-> s, doc |-> [epics |-> <<>>]] : s \in {"absent", "malformed"}}

RemoteStates(T) ==
    UNION {{[n \in 1..m |-> [number |-> n, title |-> f[n],
                             labels |-> {}, state |-> "open"]]
            : f \in [1..m -> T]} : m \in 0..MaxRemote}

\* ---- outcomes of subprocess.run (line 13) ----
ListOutcomes == {"valid", "empty", "garbage", "exit1", "nostart", "undecodable"}

MutOutcomes == {"valid", "exit1", "nostart", "undecodable"}

\* the gh process was started
Ran(o) == o # "nostart"

\* the gh process exited with status 0
Exit0(o) == o \in {"valid", "empty", "garbage", "undecodable"}

\* lines 12-18: only CalledProcessError is caught
Raises(o) == o \in {"nostart", "undecodable"}

ExcOf(o) == IF o = "nostart" THEN "OSError" ELSE "UnicodeDecodeError"

NoExc == [type |-> "", line |-> 0, step |-> ""]

Exc(type, line, step) == [type |-> type, line |-> line, step |-> step]

Call(op, number, title, o) ==
    [op |-> op, number |-> number, title |-> title, ok |-> Exit0(o), out |-> o]

\* ---- pure helpers ----
RECURSIVE Flatten(_)
Flatten(epics) ==
    IF epics = <<>> THEN <<>>
    ELSE Head(epics).issues \o Flatten(Tail(epics))

\* the IssueSpecs of the loaded backlog in declaration order
AllIssues(b) == IF "epics" \in DOMAIN b THEN Flatten(b.epics) ELSE <<>>

\* line 70-71: the inner loop; raised when an issue has no title
RECURSIVE TitlesOfIssues(_, _)
TitlesOfIssues(issues, acc) ==
    IF issues = <<>> THEN [titles |-> acc, raised |-> FALSE]
    ELSE IF "title" \notin DOMAIN Head(issues)
         THEN [titles |-> acc, raised |-> TRUE]
         ELSE TitlesOfIssues(Tail(issues), acc \cup {Head(issues).title})

\* lines 69-71: the outer loop; line is where KeyError was raised, 0 if nowhere
RECURSIVE TitlesOfEpics(_, _)
TitlesOfEpics(epics, acc) ==
    IF epics = <<>> THEN [titles |-> acc, line |-> 0]
    ELSE IF "issues" \notin DOMAIN Head(epics)
         THEN [titles |-> acc, line |-> 70]
         ELSE LET r == TitlesOfIssues(Head(epics).issues, acc) IN
              IF r.raised THEN [titles |-> r.titles, line |-> 71]
              ELSE TitlesOfEpics(Tail(epics), r.titles)

\* lines 68-71
ExtractTitles(b) ==
    IF "epics" \notin DOMAIN b THEN [titles |-> {}, line |-> 69]
    ELSE TitlesOfEpics(b.epics, {})

\* the tracker's answer to "gh issue list --state open --json number,title,labels"
RECURSIVE ListOpenIssues(_)
ListOpenIssues(r) ==
    IF r = <<>> THEN <<>>
    ELSE IF Head(r).state = "open"
         THEN <<[number |-> Head(r).number, title |-> Head(r).title,
                 labels |-> Head(r).labels]>> \o ListOpenIssues(Tail(r))
         ELSE ListOpenIssues(Tail(r))

\* lines 20-26: the parsed list when run_gh_command returned text, [] when it
\* returned None or the empty string
get_all_issues(o, r) == IF o = "valid" THEN ListOpenIssues(r) ELSE <<>>

RECURSIVE DiffLoop_dropfirst(_, _, _, _)
DiffLoop_dropfirst(cur, titles, close, existing) ==
    IF cur = <<>>
    THEN [issues_to_close |-> IF close = <<>> THEN close ELSE Tail(close),
          existing_v01_issues |-> existing]
    ELSE IF Head(cur).title \in titles
         THEN DiffLoop_dropfirst(Tail(cur), titles, close,
                                 existing \cup {Head(cur).title})
         ELSE DiffLoop_dropfirst(Tail(cur), titles, Append(close, Head(cur)),
                                 existing)

RECURSIVE DiffLoop_noexisting(_, _, _, _)
DiffLoop_noexisting(cur, titles, close, existing) ==
    IF cur = <<>>
    THEN [issues_to_close |-> close, existing_v01_issues |-> existing]
    ELSE IF Head(cur).title \in titles
         THEN DiffLoop_noexisting(Tail(cur), titles, close, existing)
         ELSE DiffLoop_noexisting(Tail(cur), titles, Append(close, Head(cur)),
                                  existing)

\* lines 80-88
RECURSIVE DiffLoop(_, _, _, _)
DiffLoop(cur, titles, close, existing) ==
    IF cur = <<>>
    THEN [issues_to_close |-> close, existing_v01_issues |-> existing]
    ELSE IF Head(cur).title \in titles
         THEN DiffLoop(Tail(cur), titles, close, existing \cup {Head(cur).title})
         ELSE DiffLoop(Tail(cur), titles, Append(close, Head(cur)), existing)

MissingIssues_all(titles, existing) == titles

\* line 101
MissingIssues(titles, existing) == titles \ existing

\* positions of the create loops still ahead whose title is in missing_issues
Pending(b, missing, k) ==
    {j \in (k + 1)..Len(AllIssues(b)) : AllIssues(b)[j].title \in missing}

Min(S) == CHOOSE x \in S : \A y \in S : x <= y

\* lines 108, 47, 50/13: what reading and passing the fields of an IssueSpec
\* raises before any gh process is started; NoExc when nothing
CreateArgsExc(issue) ==
    IF "body" \notin DOMAIN issue \/ "labels" \notin DOMAIN issue
    THEN Exc("KeyError", 108, "create")
    ELSE IF \E j \in 1..Len(issue.labels) : issue.labels[j].type # "string"
         THEN Exc("TypeError", 47, "create")
         ELSE IF issue.body.type # "string"
              THEN Exc("TypeError", 13, "create")
              ELSE NoExc

\* the labels gh attaches for --label ",".join(labels)
LabelsOf(issue) == {issue.labels[j].value : j \in 1..Len(issue.labels)}

\* the issue-list command of this run returned the open issues
QueryOk == calls # <<>> /\ calls[1].out = "valid"

\* every label, close and create command of this run so far succeeded
MutOk ==
    /\ \A j \in 2..Len(calls) : calls[j].out = "valid"
    /\ ~(exc.type = "OSError" /\ exc.step \in {"label", "close", "create"})

\* ---- initial states ----
InitWith(T, M) ==
    /\ backlogFile \in BacklogFiles(T, M)
    /\ remote \in RemoteStates(T)
    /\ remote0 = remote
    /\ pc = "load"
    /\ exc = NoExc
    /\ run = 1
    /\ backlog = <<>>
    /\ v01_titles = {}
    /\ current_issues = <<>>
    /\ issues_to_close = <<>>
    /\ existing_v01_issues = {}
    /\ missing_issues = {}
    /\ ci = 1
    /\ ki = 0
    /\ calls = <<>>
    /\ summary = <<>>
    /\ prevDone = TRUE
    /\ prevQueryOk = TRUE
    /\ prevMutOk = TRUE

Init == InitWith(Titles, MalformedTitles)

InitSmall == InitWith(SmallTitles, SmallMalformedTitles)

\* ---- steps of main ----
LoadBacklog_lenient ==
    /\ pc = "load"
    /\ LET r == ExtractTitles(backlogFile.doc) IN
          /\ backlog' = backlogFile.doc
          /\ v01_titles' = r.titles
          /\ IF r.line = 0
             THEN pc' = "query" /\ UNCHANGED exc
             ELSE pc' = "aborted" /\ exc' = Exc("KeyError", r.line, "titles")
    /\ UNCHANGED <<backlogFile, remote, remote0, run, current_issues,
                   issues_to_close, existing_v01_issues, missing_issues,
                   ci, ki, calls, summary, prevDone, prevQueryOk, prevMutOk>>

\* lines 65-71: load_optimized_backlog raises when the file is absent (open,
\* line 58) or is not JSON (json.load, line 59); the title loops raise
\* KeyError on a missing key; either exception leaves main
LoadBacklog ==
    /\ pc = "load"
    /\ IF backlogFile.state = "json"
       THEN LET r == ExtractTitles(backlogFile.doc) IN
               /\ backlog' = backlogFile.doc
               /\ v01_titles' = r.titles
               /\ IF r.line = 0
                  THEN pc' = "query" /\ UNCHANGED exc
                  ELSE pc' = "aborted" /\ exc' = Exc("KeyError", r.line, "titles")
       ELSE /\ pc' = "aborted"
            /\ exc' = IF backlogFile.state = "absent"
                      THEN Exc("FileNotFoundError", 58, "load")
                      ELSE Exc("JSONDecodeError", 59, "load")
            /\ UNCHANGED <<backlog, v01_titles>>
    /\ UNCHANGED <<backlogFile, remote, remote0, run, current_issues,
                   issues_to_close, existing_v01_issues, missing_issues,
                   ci, ki, calls, summary, prevDone, prevQueryOk, prevMutOk>>

\* line 76, with get_all_issues (lines 20-26) and run_gh_command
GetAllIssues ==
    /\ pc = "query"
    /\ \E o \in ListOutcomes :
          /\ calls' = IF Ran(o) THEN Append(calls, Call("list", 0, "", o))
                      ELSE calls
          /\ IF Raises(o)
             THEN /\ pc' = "aborted"
                  /\ exc' = Exc(ExcOf(o), 13, "list")
                  /\ UNCHANGED current_issues
             ELSE IF o = "garbage"
                  THEN /\ pc' = "aborted"
                       /\ exc' = Exc("JSONDecodeError", 25, "list")
                       /\ UNCHANGED current_issues
                  ELSE /\ pc' = "diff"
                       /\ current_issues' = get_all_issues(o, remote)
                       /\ UNCHANGED exc
    /\ UNCHANGED <<backlogFile, remote, remote0, run, backlog, v01_titles,
                   issues_to_close, existing_v01_issues, missing_issues,
                   ci, ki, summary, prevDone, prevQueryOk, prevMutOk>>

\* lines 80-91
Diff ==
    /\ pc = "diff"
    /\ LET d == DiffLoop(current_issues, v01_titles, <<>>, {}) IN
          /\ issues_to_close' = d.issues_to_close
          /\ existing_v01_issues' = d.existing_v01_issues
    /\ ci' = 1
    /\ pc' = "close"
    /\ UNCHANGED <<backlogFile, remote, remote0, exc, run, backlog, v01_titles,
                   current_issues, missing_issues, ki, calls, summary,
                   prevDone, prevQueryOk, prevMutOk>>

AddLabel_closefirst ==
    /\ pc = "close"
    /\ ci <= Len(issues_to_close)
    /\ LET n == issues_to_close[ci].number IN
          \E o \in MutOutcomes :
             /\ calls' = IF Ran(o) THEN Append(calls, Call("close", n, "", o))
                         ELSE calls
             /\ remote' = IF Exit0(o)
                          THEN [remote EXCEPT ![n].state = "closed"]
                          ELSE remote
             /\ IF Raises(o)
                THEN pc' = "aborted" /\ exc' = Exc(ExcOf(o), 13, "label")
                ELSE pc' = "closing" /\ UNCHANGED exc
    /\ UNCHANGED <<backlogFile, remote0, run, backlog, v01_titles,
                   current_issues, issues_to_close, existing_v01_issues,
                   missing_issues, ci, ki, summary, prevDone, prevQueryOk,
                   prevMutOk>>

\* lines 96-97, 30-34: first command of close_issue_with_label
AddLabel ==
    /\ pc = "close"
    /\ ci <= Len(issues_to_close)
    /\ LET n == issues_to_close[ci].number IN
          \E o \in MutOutcomes :
             /\ calls' = IF Ran(o) THEN Append(calls, Call("label", n, "", o))
                         ELSE calls
             /\ remote' = IF Exit0(o)
                          THEN [remote EXCEPT ![n].labels = @ \cup {Reason}]
                          ELSE remote
             /\ IF Raises(o)
                THEN pc' = "aborted" /\ exc' = Exc(ExcOf(o), 13, "label")
                ELSE pc' = "closing" /\ UNCHANGED exc
    /\ UNCHANGED <<backlogFile, remote0, run, backlog, v01_titles,
                   current_issues, issues_to_close, existing_v01_issues,
                   missing_issues, ci, ki, summary, prevDone, prevQueryOk,
                   prevMutOk>>

\* lines 37-39, 98: second command of close_issue_with_label, then the
\* loop moves to the next item
CloseWithComment ==
    /\ pc = "closing"
    /\ LET n == issues_to_close[ci].number IN
          \E o \in MutOutcomes :
             /\ calls' = IF Ran(o) THEN Append(calls, Call("close", n, "", o))
                         ELSE calls
             /\ remote' = IF Exit0(o)
                          THEN [remote EXCEPT ![n].state = "closed"]
                          ELSE remote
             /\ IF Raises(o)
                THEN /\ pc' = "aborted"
                     /\ exc' = Exc(ExcOf(o), 13, "close")
                     /\ UNCHANGED ci
                ELSE /\ pc' = "close"
                     /\ ci' = ci + 1
                     /\ UNCHANGED exc
    /\ UNCHANGED <<backlogFile, remote0, run, backlog, v01_titles,
                   current_issues, issues_to_close, existing_v01_issues,
                   missing_issues, ki, summary, prevDone, prevQueryOk,
                   prevMutOk>>

\* line 101, once the close loop is over (or was skipped, line 94)
ComputeMissing ==
    /\ pc = "close"
    /\ ci > Len(issues_to_close)
    /\ missing_issues' = MissingIssues(v01_titles, existing_v01_issues)
    /\ ki' = 0
    /\ pc' = "create"
    /\ UNCHANGED <<backlogFile, remote, remote0, exc, run, backlog, v01_titles,
                   current_issues, issues_to_close, existing_v01_issues,
                   ci, calls, summary, prevDone, prevQueryOk, prevMutOk>>

\* lines 105-109, 41-54: the loops advance to the next IssueSpec whose title is
\* in missing_issues, read its body and labels and issue one create command
CreateIssue ==
    /\ pc = "create"
    /\ Pending(backlog, missing_issues, ki) # {}
    /\ LET j == Min(Pending(backlog, missing_issues, ki))
           issue == AllIssues(backlog)[j]
       IN /\ ki' = j
          /\ IF CreateArgsExc(issue) # NoExc
             THEN /\ pc' = "aborted"
                  /\ exc' = CreateArgsExc(issue)
                  /\ UNCHANGED <<calls, remote>>
             ELSE \E o \in MutOutcomes :
                     /\ calls' = IF Ran(o)
                                 THEN Append(calls,
                                             Call("create", 0, issue.title, o))
                                 ELSE calls
                     /\ remote' = IF Exit0(o)
                                  THEN Append(remote,
                                              [number |-> Len(remote) + 1,
                                               title |-> issue.title,
                                               labels |-> LabelsOf(issue),
                                               state |-> "open"])
                                  ELSE remote
                     /\ IF Raises(o)
                        THEN pc' = "aborted" /\ exc' = Exc(ExcOf(o), 13, "create")
                        ELSE UNCHANGED <<pc, exc>>
    /\ UNCHANGED <<backlogFile, remote0, run, backlog, v01_titles,
                   current_issues, issues_to_close, existing_v01_issues,
                   missing_issues, ci, summary, prevDone, prevQueryOk,
                   prevMutOk>>

\* lines 111-114
Report ==
    /\ pc = "create"
    /\ Pending(backlog, missing_issues, ki) = {}
    /\ summary' = <<Len(issues_to_close), Cardinality(missing_issues),
                    Cardinality(v01_titles)>>
    /\ pc' = "done"
    /\ UNCHANGED <<backlogFile, remote, remote0, exc, run, backlog, v01_titles,
                   current_issues, issues_to_close, existing_v01_issues,
                   missing_issues, ci, ki, calls, prevDone, prevQueryOk,
                   prevMutOk>>

\* line 120: the operator invokes the script again after it returned or
\* crashed; nothing but the backlog file and the tracker survives a run
Rerun ==
    /\ pc \in {"done", "aborted"}
    /\ run < MaxRuns
    /\ run' = run + 1
    /\ pc' = "load"
    /\ exc' = NoExc
    /\ remote0' = remote
    /\ backlog' = <<>>
    /\ v01_titles' = {}
    /\ current_issues' = <<>>
    /\ issues_to_close' = <<>>
    /\ existing_v01_issues' = {}
    /\ missing_issues' = {}
    /\ ci' = 1
    /\ ki' = 0
    /\ calls' = <<>>
    /\ summary' = <<>>
    /\ prevDone' = (pc = "done")
    /\ prevQueryOk' = QueryOk
    /\ prevMutOk' = MutOk
    /\ UNCHANGED <<backlogFile, remote>>

Next ==
    \/ LoadBacklog
    \/ GetAllIssues
    \/ Diff
    \/ AddLabel
    \/ CloseWithComment
    \/ ComputeMissing
    \/ CreateIssue
    \/ Report

NextRerun ==
    \/ Next
    \/ Rerun

Spec == Init /\ [][Next]_vars

RerunSpec == InitSmall /\ [][NextRerun]_vars

TypeOK ==
    /\ pc \in {"load", "query", "diff", "close", "closing", "create",
               "done", "aborted"}
    /\ run \in 1..MaxRuns
    /\ ci \in 1..(Len(issues_to_close) + 1)
    /\ pc \in {"create", "done"} => ki \in 0..Len(AllIssues(backlog))
    /\ pc = "aborted" <=> exc # NoExc

\* ---- vocabulary of the properties ----
Range(q) == {q[j] : j \in 1..Len(q)}

Ops(op) == {j \in 1..Len(calls) : calls[j].op = op}

CreateCallsFor(t) == {j \in Ops("create") : calls[j].title = t}

\* epics in which an IssueSpec titled t is declared
EpicsDeclaring(t) ==
    {e \in 1..Len(backlog.epics) :
        \E j \in 1..Len(backlog.epics[e].issues) :
           backlog.epics[e].issues[j].title = t}

\* the remote issues classified as existingDesired
ExistingDesired == {x \in Range(current_issues) : x.title \in existing_v01_issues}

\* main is at or past line 90 / line 102
DiffDone ==
    \/ pc \in {"close", "closing", "create", "done"}
    \/ pc = "aborted" /\ exc.step \in {"label", "close", "create"}

MissingDone ==
    \/ pc \in {"create", "done"}
    \/ pc = "aborted" /\ exc.step = "create"

\* the backlog file holds a document of the schema of the repository's
\* backlog: every epic has issues, every issue a title, a string body and
\* string labels
WellFormedFile ==
    /\ backlogFile.state = "json"
    /\ ExtractTitles(backlogFile.doc).line = 0
    /\ \A j \in 1..Len(AllIssues(backlogFile.doc)) :
          CreateArgsExc(AllIssues(backlogFile.doc)[j]) = NoExc

\* the titles of the IssueSpecs the create loops select, in declaration order
RECURSIVE Selected(_, _)
Selected(q, missing) ==
    IF q = <<>> THEN <<>>
    ELSE IF Head(q).title \in missing
         THEN <<Head(q).title>> \o Selected(Tail(q), missing)
         ELSE Selected(Tail(q), missing)

\* ---- C1 ----
\* C1: once the diff has run, issues_to_close and the issues classified as
\* existing partition current_issues: their union is current_issues, they are
\* disjoint, issues_to_close holds exactly the issues whose title is not
\* desired, and no issue with a desired title is in issues_to_close.
C1_Partition ==
    DiffDone =>
       /\ Range(issues_to_close) \cup ExistingDesired = Range(current_issues)
       /\ Range(issues_to_close) \cap ExistingDesired = {}
       /\ Len(issues_to_close) + Cardinality(ExistingDesired) = Len(current_issues)
       /\ \A x \in Range(current_issues) :
             /\ x \in Range(issues_to_close) <=> x.title \notin v01_titles
             /\ x \in ExistingDesired <=> x.title \in v01_titles

C1_Witness ==
    /\ pc = "done"
    /\ v01_titles = {"A", "B"}
    /\ Len(current_issues) = 2
    /\ current_issues[1].title = "A"
    /\ current_issues[2].title = "D"
    /\ Len(issues_to_close) = 1
    /\ issues_to_close[1].title = "D"
    /\ existing_v01_issues = {"A"}

\* ---- C2 ----
\* C2: once computed, missing_issues is the set of desired titles minus the
\* titles of the issues classified as existing, which is the set of desired
\* titles that no issue of current_issues carries.
C2_Missing ==
    MissingDone =>
       /\ missing_issues = v01_titles \ {x.title : x \in ExistingDesired}
       /\ missing_issues =
             {t \in v01_titles : \A x \in Range(current_issues) : x.title # t}

C2_Witness ==
    /\ pc = "done"
    /\ v01_titles = {"A", "B"}
    /\ {x.title : x \in Range(current_issues)} = {"A", "D"}
    /\ missing_issues = {"B"}

\* ---- C3 ----
\* C3 as stated: when every close and create command of the previous run
\* succeeded, the next run computes an empty issues_to_close and an empty
\* missing_issues.
C3_Idempotent_Original ==
    (run > 1 /\ MissingDone /\ prevMutOk) =>
       (issues_to_close = <<>> /\ missing_issues = {})

\* C3 amended: the same, provided the previous run got the open issues from
\* its list command and ran to its summary, and this run gets the open issues
\* from its list command; this run then issues no command but the list.
C3_Idempotent ==
    (run > 1 /\ MissingDone /\ prevDone /\ prevMutOk /\ prevQueryOk /\ QueryOk) =>
       (issues_to_close = <<>> /\ missing_issues = {} /\ Len(calls) = 1)

C3_Witness ==
    /\ run = 2
    /\ pc = "done"
    /\ prevDone /\ prevMutOk /\ prevQueryOk /\ QueryOk
    /\ v01_titles = {"A"}
    /\ Len(remote) = 3
    /\ \A n \in 1..2 : remote[n].state = "closed" /\ Reason \in remote[n].labels
    /\ remote[3].title = "A" /\ remote[3].state = "open"
    /\ issues_to_close = <<>> /\ missing_issues = {}

\* ---- C4 ----
\* C4: when two IssueSpecs of different epics share a title that is missing
\* from the open remote issues, the run issues exactly one create call for it.
C4_OneCreatePerTitle ==
    pc = "done" =>
       \A t \in missing_issues :
          Cardinality(EpicsDeclaring(t)) > 1 => Cardinality(CreateCallsFor(t)) = 1

\* ---- C5 ----
\* the list command of this run failed: nonzero exit, or gh did not start
QueryFailed ==
    \/ calls # <<>> /\ calls[1].out = "exit1"
    \/ exc.step = "list" /\ exc.type = "OSError"

\* C5: with a backlog of the documented schema, when the issue-list command
\* fails the run does not crash there, current_issues is empty, nothing is to
\* be closed and no label or close command is issued, and missing_issues is
\* the whole desired set.
C5_QueryFailure ==
    (WellFormedFile /\ QueryFailed) =>
       /\ ~(pc = "aborted" /\ exc.step = "list")
       /\ current_issues = <<>>
       /\ issues_to_close = <<>>
       /\ Ops("label") = {} /\ Ops("close") = {}
       /\ MissingDone => missing_issues = v01_titles

\* ---- C6 ----
\* the label command issued for issue number n succeeded
LabelOk(n) == \E j \in Ops("label") : calls[j].number = n /\ calls[j].out = "valid"

\* the close command for issue number n failed: nonzero exit, or gh did not
\* start
CloseFailed(n) ==
    \/ \E j \in Ops("close") : calls[j].number = n /\ calls[j].out = "exit1"
    \/ /\ exc.step = "close" /\ exc.type = "OSError"
       /\ issues_to_close[ci].number = n

\* C6: with a backlog of the documented schema, an item whose label command
\* succeeded and whose close command failed stays labelled and open, and that
\* failure does not make an exception leave main at the close step.
C6_PartialClose ==
    WellFormedFile =>
       \A n \in 1..Len(remote) :
          (LabelOk(n) /\ CloseFailed(n)) =>
             /\ Reason \in remote[n].labels
             /\ remote[n].state = "open"
             /\ ~(pc = "aborted" /\ exc.step = "close")

\* ---- C7 ----
\* C7: once a backlog of the documented schema is loaded, no failure of a
\* list, label, close or create command makes the run end without its
\* summary.
C7_AlwaysReports ==
    WellFormedFile => pc # "aborted"

\* ---- C8 ----
\* C8: the summary's closed count is the number of close-with-label
\* operations invoked and its created count is the number of create commands
\* invoked.
C8_SummaryCountsAttempts ==
    pc = "done" =>
       /\ summary[1] = Cardinality(Ops("label"))
       /\ summary[2] = Cardinality(Ops("create"))

\* ---- C9 ----
\* C9: a backlog file that is absent or is not JSON aborts the run at once:
\* the run never gets past the load, no command is ever issued, no diff is
\* computed, no summary is printed and the tracker is as it was.
C9_FatalLoad ==
    backlogFile.state # "json" =>
       /\ pc \in {"load", "aborted"}
       /\ pc = "aborted" => exc.step = "load"
       /\ calls = <<>>
       /\ summary = <<>>
       /\ remote = remote0
       /\ current_issues = <<>> /\ issues_to_close = <<>>
       /\ existing_v01_issues = {} /\ missing_issues = {}

C9_Witness ==
    /\ pc = "aborted"
    /\ backlogFile.state = "absent"
    /\ exc.type = "FileNotFoundError"
    /\ Len(remote) = 2

\* ---- C10 ----
\* C10: the commands of a run follow Query, Close*, Create*, Report: nothing
\* is issued before the load is over, the list command is the first command
\* and the only one of its kind, each close command directly follows the
\* label command of the same item, the items are taken once each in the order
\* of issues_to_close, no label or close command follows a create command,
\* the create commands are those of the selected IssueSpecs once each in
\* declaration order, and the summary exists exactly when the run is done,
\* after all of them.
C10_Pipeline ==
    /\ pc \in {"load", "query"} => calls = <<>>
    /\ calls # <<>> => Ops("list") = {1}
    /\ pc \in {"diff", "close", "closing", "create", "done"} => calls # <<>>
    /\ \A j \in Ops("close") :
          j > 1 /\ calls[j - 1].op = "label" /\ calls[j - 1].number = calls[j].number
    /\ \A j \in Ops("label") :
          /\ j < Len(calls) => calls[j + 1].op = "close"
          /\ j = Len(calls) => pc \in {"closing", "aborted"}
          /\ calls[j].number = issues_to_close[j \div 2].number
    /\ pc = "closing" => Len(calls) \in Ops("label")
    /\ \A j \in Ops("create") :
          /\ \A m \in j..Len(calls) : calls[m].op = "create"
          /\ MissingDone
          /\ j - 1 - 2 * Len(issues_to_close)
                \in 1..Len(Selected(AllIssues(backlog), missing_issues))
          /\ calls[j].title =
                Selected(AllIssues(backlog), missing_issues)
                   [j - 1 - 2 * Len(issues_to_close)]
    /\ MissingDone =>
          /\ Cardinality(Ops("label")) = Len(issues_to_close)
          /\ Cardinality(Ops("close")) = Len(issues_to_close)
    /\ summary # <<>> <=> pc = "done"
    /\ pc = "done" =>
          Len(calls) = 1 + 2 * Len(issues_to_close)
                         + Len(Selected(AllIssues(backlog), missing_issues))

C10_Witness ==
    /\ pc = "done"
    /\ Len(issues_to_close) = 2
    /\ Cardinality(Ops("create")) >= 2
    /\ \E j \in 1..Len(calls) : ~calls[j].ok
====
